---- MODULE Spec2Model ----
(***************************************************************************)
(* Model of sudoku_solver.py: solve_sudoku(grid) encodes a 9x9 Sudoku grid *)
(* as a CNF formula over 729 variables (rules 1-6), hands the clauses to   *)
(* a SAT solver and decodes the model it returns into a solved grid.       *)
(*                                                                         *)
(* Rows, columns and values are 0-indexed as in the source; TLA+ sequences *)
(* are 1-indexed, so cell (r, c) of a grid g is g[r + 1][c + 1].           *)
(***************************************************************************)
EXTENDS Integers, Sequences, FiniteSets, TLC

VARIABLES
    pc,        \* position inside solve_sudoku: "idle" between calls
    grid,      \* the argument of the running call
    cnf,       \* cnf.clauses: the sequence of clauses built so far
    model,     \* solver.get_model(): the literals +-1 .. +-nof_vars, or <<>>
    solution,  \* the decoder's grid (line 90), <<>> before it is made
    result,    \* what the call returned: "grid" (solution), "None", or "-" (nothing yet)
    error,     \* the exception the call ended in, or "-"
    past,      \* history: the grids of the calls that returned, in order
    first,     \* history: the grid and the formula of the first call, or <<>>
    triple,    \* index harness: the (row, col, value) given to var
    ident,     \* index harness: <<var(row, col, value)>>, <<>> before the call
    back       \* index harness: the triple decoded from ident, <<>> before

vars == <<pc, grid, cnf, model, solution, result, error, past, first, triple, ident, back>>

None == "None"

-----------------------------------------------------------------------------
(* Helpers for the source's loops.                                         *)

\* The concatenation of Body(lo), Body(lo + 1), ..., Body(hi - 1):
\* what `for i in range(lo, hi)` appends, in order.
RECURSIVE Loop(_, _, _)
Loop(Body(_), lo, hi) ==
    IF lo >= hi THEN <<>> ELSE Body(lo) \o Loop(Body, lo + 1, hi)

ForRange(lo, hi, Body(_)) == Loop(Body, lo, hi)

\* [e(i) for i in range(n)] as a sequence.
ListComp(n, e(_)) == [i \in 1..n |-> e(i - 1)]

-----------------------------------------------------------------------------
(* Variable index (lines 28-29) and the decoder's arithmetic (93-96).      *)

\* var without the final + 1: identifiers from 0.
varFromZero(r, c, v) == r * 81 + c * 9 + v

var(r, c, v) == r * 81 + c * 9 + v + 1

\* The arithmetic with % in place of // for the column.
unvarColumnMod(lit) ==
    LET z == lit - 1
    IN  <<z \div 81, (z % 81) % 9, z % 9>>

\* Python's // and % with a positive divisor are floor division and the
\* non-negative remainder, as \div and % are in TLA+.
unvar(lit) ==
    LET z == lit - 1
    IN  <<z \div 81, (z % 81) \div 9, z % 9>>

-----------------------------------------------------------------------------
(* Encoder, rules 1-5 (lines 33-73): the same clauses for every grid.      *)

Rule1 ==
    ForRange(0, 9, LAMBDA r :
      ForRange(0, 9, LAMBDA c :
        << ListComp(9, LAMBDA v : var(r, c, v)) >>))

\* Rule 2 with v2 from v1 instead of v1 + 1.
Rule2FromV1 ==
    ForRange(0, 9, LAMBDA r :
      ForRange(0, 9, LAMBDA c :
        ForRange(0, 9, LAMBDA v1 :
          ForRange(v1, 9, LAMBDA v2 :
            << << -var(r, c, v1), -var(r, c, v2) >> >>))))

Rule2 ==
    ForRange(0, 9, LAMBDA r :
      ForRange(0, 9, LAMBDA c :
        ForRange(0, 9, LAMBDA v1 :
          ForRange(v1 + 1, 9, LAMBDA v2 :
            << << -var(r, c, v1), -var(r, c, v2) >> >>))))

\* Rule 3 with row and column exchanged in var: the clauses of rule 4.
Rule3Transposed ==
    ForRange(0, 9, LAMBDA r :
      ForRange(0, 9, LAMBDA v :
        << ListComp(9, LAMBDA c : var(c, r, v)) >>
        \o ForRange(0, 9, LAMBDA c1 :
             ForRange(c1 + 1, 9, LAMBDA c2 :
               << << -var(c1, r, v), -var(c2, r, v) >> >>))))

Rule3 ==
    ForRange(0, 9, LAMBDA r :
      ForRange(0, 9, LAMBDA v :
        << ListComp(9, LAMBDA c : var(r, c, v)) >>
        \o ForRange(0, 9, LAMBDA c1 :
             ForRange(c1 + 1, 9, LAMBDA c2 :
               << << -var(r, c1, v), -var(r, c2, v) >> >>))))

Rule4 ==
    ForRange(0, 9, LAMBDA c :
      ForRange(0, 9, LAMBDA v :
        << ListComp(9, LAMBDA r : var(r, c, v)) >>
        \o ForRange(0, 9, LAMBDA r1 :
             ForRange(r1 + 1, 9, LAMBDA r2 :
               << << -var(r1, c, v), -var(r2, c, v) >> >>))))

BoxCells(box_r, box_c, v) ==
    ForRange(box_r * 3, box_r * 3 + 3, LAMBDA r :
      ForRange(box_c * 3, box_c * 3 + 3, LAMBDA c :
        << var(r, c, v) >>))

Rule5 ==
    ForRange(0, 3, LAMBDA box_r :
      ForRange(0, 3, LAMBDA box_c :
        ForRange(0, 9, LAMBDA v :
          LET cells == BoxCells(box_r, box_c, v)
          IN  << cells >>
              \o ForRange(0, Len(cells), LAMBDA i :
                   ForRange(i + 1, Len(cells), LAMBDA j :
                     << << -cells[i + 1], -cells[j + 1] >> >>)))))

-----------------------------------------------------------------------------
(* Encoder, rule 6 (lines 75-80).                                          *)

Indexable(g, r, c) == r + 1 <= Len(g) /\ c + 1 <= Len(g[r + 1])

\* The number of cells, in row-major order, rule 6 reads before grid[r][c]
\* raises IndexError; 81 when every read succeeds.
FirstBad(g) ==
    LET bad == {k \in 0..80 : ~Indexable(g, k \div 9, k % 9)}
    IN  IF bad = {} THEN 81 ELSE CHOOSE k \in bad : \A j \in bad : k <= j

\* Rule 6 without the - 1 of line 79.
ClueClauseNoMinusOne(g, r, c) ==
    IF g[r + 1][c + 1] # 0
    THEN LET v == g[r + 1][c + 1] IN << << var(r, c, v) >> >>
    ELSE <<>>

ClueClause(g, r, c) ==
    IF g[r + 1][c + 1] # 0
    THEN LET v == g[r + 1][c + 1] - 1 IN << << var(r, c, v) >> >>
    ELSE <<>>

\* The clauses rule 6 appends before it ends or raises.
Rule6(g) ==
    ForRange(0, FirstBad(g), LAMBDA k : ClueClause(g, k \div 9, k % 9))

-----------------------------------------------------------------------------
(* The SAT solver behind Solver(name='glucose3') (lines 83-87), by its     *)
(* contract: solve() is true exactly when some assignment of the variables *)
(* 1..nof_vars satisfies every clause, and get_model() is one such         *)
(* assignment, as the list of its literals in variable order. The set of   *)
(* satisfying assignments is computed by unit propagation and splitting.   *)

Abs(l) == IF l < 0 THEN -l ELSE l

NofVars(cls) ==
    LET vs == UNION {{Abs(cls[i][j]) : j \in 1..Len(cls[i])} : i \in 1..Len(cls)}
    IN  IF vs = {} THEN 0 ELSE CHOOSE m \in vs : \A x \in vs : x <= m

\* cls with the literals of L made true: satisfied clauses dropped, false
\* literals removed.
Assign(cls, L) ==
    LET live == SelectSeq(cls, LAMBDA cl : \A i \in 1..Len(cl) : cl[i] \notin L)
    IN  [k \in 1..Len(live) |-> SelectSeq(live[k], LAMBDA l : -l \notin L)]

\* The sets of literals (partial assignments extending trail) that satisfy
\* every clause of cls.
RECURSIVE Search(_, _)
Search(cls, trail) ==
    IF \E i \in 1..Len(cls) : cls[i] = <<>> THEN {}
    ELSE LET units == {cls[i][1] : i \in {j \in 1..Len(cls) : Len(cls[j]) = 1}}
         IN  IF \E l \in units : -l \in units THEN {}
             ELSE IF units # {} THEN Search(Assign(cls, units), trail \cup units)
             ELSE IF cls = <<>> THEN {trail}
             ELSE LET l == cls[1][1]
                  IN  Search(Assign(cls, {l}), trail \cup {l})
                      \cup Search(Assign(cls, {-l}), trail \cup {-l})

\* Every total assignment of 1..n that agrees with trail, as get_model()
\* lists it: literal i or -i at position i.
Totals(trail, n) ==
    LET free == {i \in 1..n : i \notin trail /\ -i \notin trail}
    IN  {[i \in 1..n |-> IF i \in trail \/ (i \in free /\ i \in pos) THEN i ELSE -i] :
            pos \in SUBSET free}

Models(cls) ==
    UNION {Totals(t, NofVars(cls)) : t \in Search(cls, {})}

-----------------------------------------------------------------------------
(* Decoder (lines 89-99).                                                  *)

EmptySolution == [r \in 1..9 |-> [c \in 1..9 |-> 0]]

\* The iteration without the + 1 of line 97.
DecodeLitNoPlusOne(d, lit) ==
    IF d.raised # "-" \/ lit <= 0 THEN d
    ELSE LET t == unvar(lit)
         IN  IF t[1] > 8 THEN [d EXCEPT !.raised = "IndexError"]
             ELSE [d EXCEPT !.sol[t[1] + 1][t[2] + 1] = t[3]]

\* One iteration of `for lit in model` (lines 92-97) on the decoder's state
\* d: solution[r][c] = v + 1 raises IndexError when r is past the 9 rows, and
\* the loop is over once something was raised.
DecodeLit(d, lit) ==
    IF d.raised # "-" \/ lit <= 0 THEN d
    ELSE LET t == unvar(lit)
         IN  IF t[1] > 8 THEN [d EXCEPT !.raised = "IndexError"]
             ELSE [d EXCEPT !.sol[t[1] + 1][t[2] + 1] = t[3] + 1]

\* The iterations for m[lo], ..., m[hi] in order (split in halves to keep the
\* evaluation shallow).
RECURSIVE DecodeRange(_, _, _, _)
DecodeRange(d, m, lo, hi) ==
    IF lo > hi THEN d
    ELSE IF lo = hi THEN DecodeLit(d, m[lo])
    ELSE LET mid == (lo + hi) \div 2
             left == DecodeRange(d, m, lo, mid)
         IN  IF left.raised # "-" THEN left
             ELSE DecodeRange(left, m, mid + 1, hi)

DecodeModel(m) ==
    DecodeRange([raised |-> "-", sol |-> EmptySolution], m, 1, Len(m))

-----------------------------------------------------------------------------
(* Input grids.                                                            *)

\* The example puzzle of main() (lines 166-176).
Example ==
    << <<5, 3, 0, 0, 7, 0, 0, 0, 0>>,
       <<6, 0, 0, 1, 9, 5, 0, 0, 0>>,
       <<0, 9, 8, 0, 0, 0, 0, 6, 0>>,
       <<8, 0, 0, 0, 6, 0, 0, 0, 3>>,
       <<4, 0, 0, 8, 0, 3, 0, 0, 1>>,
       <<7, 0, 0, 0, 2, 0, 0, 0, 6>>,
       <<0, 6, 0, 0, 0, 0, 2, 8, 0>>,
       <<0, 0, 0, 4, 1, 9, 0, 0, 5>>,
       <<0, 0, 0, 0, 8, 0, 0, 7, 9>> >>

\* A fully specified grid: the completion of Example.
Base ==
    << <<5, 3, 4, 6, 7, 8, 9, 1, 2>>,
       <<6, 7, 2, 1, 9, 5, 3, 4, 8>>,
       <<1, 9, 8, 3, 4, 2, 5, 6, 7>>,
       <<8, 5, 9, 7, 6, 1, 4, 2, 3>>,
       <<4, 2, 6, 8, 5, 3, 7, 9, 1>>,
       <<7, 1, 3, 9, 2, 4, 8, 5, 6>>,
       <<9, 6, 1, 5, 3, 7, 2, 8, 4>>,
       <<2, 8, 7, 4, 1, 9, 6, 3, 5>>,
       <<3, 4, 5, 2, 8, 6, 1, 7, 9>> >>

\* The cells edited in Base, as <<r, c>>. The first four hold 1 3 / 3 1 at
\* the corners of a rectangle over two boxes, so blanking them leaves two
\* completions; the fifth shares a box, but no row or column, with the first.
Holes == << <<3, 5>>, <<3, 8>>, <<4, 5>>, <<4, 8>>, <<5, 4>> >>

\* The values an edited cell may take: blank, or one of the rectangle's.
HoleVals == << {0, 1, 3}, {0, 1, 3}, {0, 1, 3}, {0, 1, 3}, {1} >>

\* At most MaxEdits cells of a grid differ from Base.
MaxEdits == 4

WithHoles(f) ==
    [r \in 1..9 |-> [c \in 1..9 |->
        IF \E h \in 1..Len(Holes) : Holes[h] = <<r - 1, c - 1>>
        THEN f[CHOOSE h \in 1..Len(Holes) : Holes[h] = <<r - 1, c - 1>>]
        ELSE Base[r][c]]]

BaseAt(h) == Base[Holes[h][1] + 1][Holes[h][2] + 1]

Edits ==
    {f \in [1..Len(Holes) -> 0..9] :
        /\ \A h \in 1..Len(Holes) : f[h] \in HoleVals[h] \cup {BaseAt(h)}
        /\ Cardinality({h \in 1..Len(Holes) : f[h] # BaseAt(h)}) <= MaxEdits}

Grids == {WithHoles(f) : f \in Edits}

\* Example with its first j blank cells (row-major) given as in Base, for
\* j up to MaxReveal.
MaxReveal == 3

BlankCells(g) ==
    SelectSeq([k \in 1..81 |-> <<(k - 1) \div 9, (k - 1) % 9>>],
              LAMBDA rc : g[rc[1] + 1][rc[2] + 1] = 0)

Reveal(j) ==
    [r \in 1..9 |-> [c \in 1..9 |->
        IF \E i \in 1..j : BlankCells(Example)[i] = <<r - 1, c - 1>>
        THEN Base[r][c]
        ELSE Example[r][c]]]

ExampleGrids == {Reveal(j) : j \in 0..MaxReveal}

-----------------------------------------------------------------------------
(* solve_sudoku, step by step.                                             *)

\* A formula kept from the call before instead of a fresh one.
CNFKept == cnf

\* cnf = CNF() (line 31): a fresh, empty formula.
CNF == <<>>

StartCall(g) ==
    /\ pc = "idle"
    /\ grid' = g
    /\ cnf' = CNF
    /\ model' = <<>>
    /\ solution' = <<>>
    /\ result' = "-"
    /\ error' = "-"
    /\ pc' = "rules"
    /\ UNCHANGED <<triple, ident, back>>

Call ==
    /\ \E g \in Grids : StartCall(g)
    /\ UNCHANGED <<past, first>>

CallExample ==
    /\ \E g \in ExampleGrids : StartCall(g)
    /\ UNCHANGED <<past, first>>

\* Lines 33-73.
EncodeRules ==
    /\ pc = "rules"
    /\ cnf' = cnf \o Rule1 \o Rule2 \o Rule3 \o Rule4 \o Rule5
    /\ pc' = "clues"
    /\ UNCHANGED <<grid, model, solution, result, error, past, first, triple, ident, back>>

\* Lines 75-80.
EncodeClues ==
    /\ pc = "clues"
    /\ cnf' = cnf \o Rule6(grid)
    /\ IF FirstBad(grid) < 81
       THEN pc' = "raised" /\ error' = "IndexError"
       ELSE pc' = "solve" /\ error' = error
    /\ UNCHANGED <<grid, model, solution, result, past, first, triple, ident, back>>

\* Lines 83-87: solver.solve() is true and get_model() is any satisfying
\* assignment.
SolveSat ==
    /\ pc = "solve"
    /\ \E m \in Models(cnf) : model' = m
    /\ pc' = "decode"
    /\ UNCHANGED <<grid, cnf, solution, result, error, past, first, triple, ident, back>>

\* Lines 86, 100-101: solver.solve() is false.
SolveUnsat ==
    /\ pc = "solve"
    /\ Models(cnf) = {}
    /\ result' = None
    /\ pc' = "done"
    /\ UNCHANGED <<grid, cnf, model, solution, error, past, first, triple, ident, back>>

\* Lines 89-99.
Decode ==
    /\ pc = "decode"
    /\ LET d == DecodeModel(model)
       IN  /\ solution' = d.sol
           /\ IF d.raised # "-"
              THEN pc' = "raised" /\ error' = d.raised /\ result' = result
              ELSE pc' = "done" /\ result' = "grid" /\ error' = error
    /\ UNCHANGED <<grid, cnf, model, past, first, triple, ident, back>>

\* The call is over: its result or its exception is with the caller.
Finish ==
    /\ pc \in {"done", "raised"}
    /\ pc' = "idle"
    /\ UNCHANGED <<grid, cnf, model, solution, result, error, triple, ident, back>>

Return == Finish /\ UNCHANGED <<past, first>>

-----------------------------------------------------------------------------
Init ==
    /\ pc = "idle"
    /\ grid = <<>>
    /\ cnf = <<>>
    /\ model = <<>>
    /\ solution = <<>>
    /\ result = "-"
    /\ error = "-"
    /\ past = <<>>
    /\ first = <<>>
    /\ triple = <<>>
    /\ ident = <<>>
    /\ back = <<>>

Next ==
    \/ Call
    \/ EncodeRules
    \/ EncodeClues
    \/ SolveSat
    \/ SolveUnsat
    \/ Decode
    \/ Return

\* Calls of solve_sudoku on almost complete well-formed grids.
Spec == Init /\ [][Next]_vars

NextExample == Next \/ CallExample

\* The same, and calls on the example puzzle of main().
SpecExample == Init /\ [][NextExample]_vars

-----------------------------------------------------------------------------
(* Calls on malformed grids: a cell outside 0..9, a missing row, a short   *)
(* row.                                                                    *)

BadVals == {-1, 10}

BadCells == {<<r, c>> : r \in {0, 8}, c \in 0..8}

WithCell(g, r, c, x) == [g EXCEPT ![r + 1][c + 1] = x]

MalformedGrids ==
    {WithCell(Base, rc[1], rc[2], x) : rc \in BadCells, x \in BadVals}
    \cup {SubSeq(Base, 1, 8), [Base EXCEPT ![5] = SubSeq(Base[5], 1, 8)]}

CallMalformed ==
    /\ \E g \in MalformedGrids : StartCall(g)
    /\ UNCHANGED <<past, first>>

NextMalformed ==
    \/ CallMalformed
    \/ EncodeRules
    \/ EncodeClues
    \/ SolveSat
    \/ SolveUnsat
    \/ Decode
    \/ Return

SpecMalformed == Init /\ [][NextMalformed]_vars

-----------------------------------------------------------------------------
(* Sequences of calls, with the history of the formulas they built.        *)

MaxCalls == 3

SeqGrids ==
    { Base,
      WithHoles(<<0, 0, 0, 0, 2>>),      \* two completions
      WithHoles(<<1, 1, 3, 1, 2>>) }     \* 1 twice in row 3

CallSeq ==
    /\ Len(past) < MaxCalls
    /\ \E g \in SeqGrids : StartCall(g)
    /\ UNCHANGED <<past, first>>

ReturnSeq ==
    /\ Finish
    /\ past' = Append(past, grid)
    /\ first' = IF first = <<>> THEN [grid |-> grid, cnf |-> cnf] ELSE first

NextSeq ==
    \/ CallSeq
    \/ EncodeRules
    \/ EncodeClues
    \/ SolveSat
    \/ SolveUnsat
    \/ Decode
    \/ ReturnSeq

SpecSeq == Init /\ [][NextSeq]_vars

-----------------------------------------------------------------------------
(* The decoder on an assignment supplied from outside: the model of Base   *)
(* with up to MaxExtra further variables of the first cells made true.     *)

MaxExtra == 2

ExtraVars == 1..18

ModelOf(h) ==
    [i \in 1..729 |->
        LET t == unvar(i)
        IN  IF h[t[1] + 1][t[2] + 1] = t[3] + 1 THEN i ELSE -i]

SuppliedModels ==
    {[i \in 1..729 |-> IF i \in X THEN i ELSE ModelOf(Base)[i]] :
        X \in {Y \in SUBSET ExtraVars : Cardinality(Y) <= MaxExtra}}

InitDecoder ==
    /\ pc = "decode"
    /\ grid = Base
    /\ cnf = <<>>
    /\ model \in SuppliedModels
    /\ solution = <<>>
    /\ result = "-"
    /\ error = "-"
    /\ past = <<>>
    /\ first = <<>>
    /\ triple = <<>>
    /\ ident = <<>>
    /\ back = <<>>

NextDecoder == Decode \/ Return

SpecDecoder == InitDecoder /\ [][NextDecoder]_vars

-----------------------------------------------------------------------------
(* The variable index on its own: var on a triple, then the decoder's      *)
(* arithmetic on the identifier; or the arithmetic on an identifier, then  *)
(* var on the triple.                                                      *)

\* Triples are drawn from -Slack .. 8 + Slack.
Slack == 1

InitIndex ==
    /\ pc = "idle"
    /\ grid = <<>>
    /\ cnf = <<>>
    /\ model = <<>>
    /\ solution = <<>>
    /\ result = "-"
    /\ error = "-"
    /\ past = <<>>
    /\ first = <<>>
    /\ \/ /\ triple \in ((0 - Slack)..(8 + Slack)) \X ((0 - Slack)..(8 + Slack))
                          \X ((0 - Slack)..(8 + Slack))
          /\ ident = <<>>
       \/ /\ triple = <<>>
          /\ ident \in {<<id>> : id \in 1..729}
    /\ back = <<>>

ApplyVar ==
    /\ triple # <<>>
    /\ ident = <<>>
    /\ ident' = <<var(triple[1], triple[2], triple[3])>>
    /\ UNCHANGED <<pc, grid, cnf, model, solution, result, error, past, first,
                   triple, back>>

ApplyUnvar ==
    /\ ident # <<>>
    /\ ident[1] > 0
    /\ back = <<>>
    /\ back' = unvar(ident[1])
    /\ UNCHANGED <<pc, grid, cnf, model, solution, result, error, past, first,
                   triple, ident>>

NextIndex == ApplyVar \/ ApplyUnvar

SpecIndex == InitIndex /\ [][NextIndex]_vars
-----------------------------------------------------------------------------
(* What a valid completion is, independently of the encoding.              *)

Rows == {{<<r, c>> : c \in 1..9} : r \in 1..9}
Cols == {{<<r, c>> : r \in 1..9} : c \in 1..9}
Boxes ==
    {{<<3 * br + i, 3 * bc + j>> : i \in 1..3, j \in 1..3} : br \in 0..2, bc \in 0..2}
Units == Rows \cup Cols \cup Boxes

\* Each of 1..9 exactly once in every row, column and box.
ValidGrid(h) ==
    \A u \in Units : \A d \in 1..9 :
        Cardinality({rc \in u : h[rc[1]][rc[2]] = d}) = 1

KeepsClues(g, h) ==
    \A r \in 1..9, c \in 1..9 : g[r][c] # 0 => h[r][c] = g[r][c]

\* Some other cell of a unit of (r, c) holds d.
Clash(h, r, c, d) ==
    \E u \in Units :
        /\ <<r, c>> \in u
        /\ \E rc \in u : rc # <<r, c>> /\ h[rc[1]][rc[2]] = d

\* The valid grids that fill the blanks of h from cell k on (row-major),
\* the cells before k being settled.
RECURSIVE Fill(_, _)
Fill(h, k) ==
    IF k = 81 THEN {h}
    ELSE LET r == (k \div 9) + 1
             c == (k % 9) + 1
         IN  IF h[r][c] # 0
             THEN IF Clash(h, r, c, h[r][c]) THEN {} ELSE Fill(h, k + 1)
             ELSE UNION {Fill([h EXCEPT ![r][c] = d], k + 1) :
                            d \in {e \in 1..9 : ~Clash(h, r, c, e)}}

Completions(g) == Fill(g, 0)

\* Assignment m makes exactly the triples of grid h true.
Agrees(m, h) ==
    /\ Len(m) = 729
    /\ \A r \in 0..8, c \in 0..8, v \in 0..8 :
           m[var(r, c, v)] > 0 <=> h[r + 1][c + 1] = v + 1

WellFormed(g) ==
    /\ Len(g) = 9
    /\ \A r \in 1..9 : Len(g[r]) = 9 /\ \A c \in 1..9 : g[r][c] \in 0..9

NonZero(g) == {rc \in (1..9) \X (1..9) : g[rc[1]][rc[2]] # 0}

SameClueInRow(g) ==
    \E r \in 1..9, c1 \in 1..9, c2 \in 1..9 :
        c1 # c2 /\ g[r][c1] # 0 /\ g[r][c1] = g[r][c2]

SameClueInBox(g) ==
    \E b \in Boxes : \E x \in b, y \in b :
        x # y /\ g[x[1]][x[2]] # 0 /\ g[x[1]][x[2]] = g[y[1]][y[2]]

Returned == pc = "done"

-----------------------------------------------------------------------------
(* C1: whenever solve_sudoku returns a grid for a well-formed input, the   *)
(* grid has each of 1..9 exactly once in every row, column and box and     *)
(* keeps every clue; for the example puzzle its first row is               *)
(* 5 3 4 6 7 8 9 1 2.                                                      *)
C1_SolutionValid ==
    (Returned /\ result = "grid" /\ WellFormed(grid)) =>
        /\ ValidGrid(solution)
        /\ KeepsClues(grid, solution)
        /\ grid = Example => solution[1] = <<5, 3, 4, 6, 7, 8, 9, 1, 2>>

C1_Witness ==
    /\ Returned
    /\ result = "grid"
    /\ grid = Example
    /\ solution = Base

(* C2: the formula of a well-formed grid is satisfiable exactly when the   *)
(* grid has a valid completion, every satisfying assignment makes true the *)
(* triples of exactly one valid completion, and the call returns None      *)
(* exactly when there is no valid completion.                              *)
C2_SatIffCompletion ==
    (Returned /\ WellFormed(grid)) =>
        LET M == Models(cnf)
            K == Completions(grid)
        IN  /\ \A k \in K : ValidGrid(k) /\ KeepsClues(grid, k)
            /\ (M # {}) <=> (K # {})
            /\ \A m \in M : Cardinality({k \in K : Agrees(m, k)}) = 1
            /\ (result = None) <=> (K = {})

C2_Witness ==
    /\ Returned
    /\ result = "grid"
    /\ Cardinality(Models(cnf)) = 2
    /\ Cardinality(Completions(grid)) = 2

C2_WitnessNone ==
    /\ Returned
    /\ result = None
    /\ Completions(grid) = {}
    /\ ~SameClueInRow(grid)
    /\ ~SameClueInBox(grid)

(* C3: for a grid with the same clue twice in one row, or twice in one     *)
(* box, the call returns None and never a grid.                            *)
C3_DuplicateClueNone ==
    (Returned /\ WellFormed(grid) /\ (SameClueInRow(grid) \/ SameClueInBox(grid)))
        => result = None

C3_Witness ==
    /\ Returned
    /\ result = None
    /\ SameClueInRow(grid)
    /\ ~SameClueInBox(grid)

C3_WitnessBox ==
    /\ Returned
    /\ result = None
    /\ SameClueInBox(grid)
    /\ ~SameClueInRow(grid)

(* C4: a call on a malformed grid (not 9x9, or a cell outside 0..9) ends   *)
(* in an input-validation error with no clause added to the formula and    *)
(* the solver never invoked.                                               *)
C4_MalformedRejected ==
    (pc # "idle" /\ ~WellFormed(grid)) =>
        /\ cnf = <<>>
        /\ pc \in {"rules", "raised"}
        /\ pc = "raised" => error = "InputValidation"

(* C5: when two positive literals of the assignment map to one cell with   *)
(* different values, the decoder fails with an Inconsistent-Model error    *)
(* and returns no grid.                                                    *)
TwoValuesForACell(m) ==
    \E i \in 1..Len(m), j \in 1..Len(m) :
        /\ m[i] > 0 /\ m[j] > 0 /\ m[i] # m[j]
        /\ unvar(m[i])[1] = unvar(m[j])[1]
        /\ unvar(m[i])[2] = unvar(m[j])[2]

C5_InconsistentModelDetected ==
    (pc \in {"done", "raised"} /\ TwoValuesForACell(model)) =>
        /\ error = "InconsistentModel"
        /\ result # "grid"

(* C6: var fails with an OutOfRange error whenever row, col or value is    *)
(* outside 0..8, and returns no identifier for such a triple.              *)
InRange(t) == \A i \in 1..3 : t[i] \in 0..8

C6_VarRejectsOutOfRange ==
    (triple # <<>> /\ ~InRange(triple)) => ident = <<>>

(* C7: var maps the 729 triples of 0..8 onto 1..729 without repeats, the   *)
(* decoder's arithmetic returns the triple var was given, and for every    *)
(* identifier of 1..729 it returns a triple of 0..8 whose var is that      *)
(* identifier.                                                             *)
C7_IndexBijection ==
    /\ (triple # <<>> /\ InRange(triple) /\ ident # <<>>) =>
          /\ ident[1] \in 1..729
          /\ \A t \in (0..8) \X (0..8) \X (0..8) :
                 t # triple => var(t[1], t[2], t[3]) # ident[1]
          /\ back # <<>> => back = triple
    /\ (ident # <<>> /\ ident[1] \in 1..729 /\ back # <<>>) =>
          /\ InRange(back)
          /\ var(back[1], back[2], back[3]) = ident[1]

C7_Witness ==
    /\ triple = <<8, 8, 8>>
    /\ ident = <<729>>
    /\ back = <<8, 8, 8>>

C7_WitnessInverse ==
    /\ triple = <<>>
    /\ ident = <<82>>
    /\ back = <<1, 0, 0>>

(* C8: rules 1-5 emit 11988 clauses for every well-formed grid, and the    *)
(* whole formula has 11988 clauses plus one per non-zero cell.             *)
C8_ClauseCount ==
    /\ pc = "clues" => Len(cnf) = 81 + 81 * 36 + 3 * 81 * 37
    /\ pc \in {"solve", "decode", "done"} =>
          Len(cnf) = 11988 + Cardinality(NonZero(grid))

C8_Witness ==
    /\ pc = "solve"
    /\ Cardinality(NonZero(grid)) = 77
    /\ Len(cnf) = 11988 + 77

(* C9: across a sequence of calls, a call on the grid of the first call    *)
(* builds the clauses of the first call in the same order, whatever calls  *)
(* came in between.                                                        *)
C9_FormulaDependsOnGridOnly ==
    (pc \in {"solve", "decode", "done"} /\ first # <<>> /\ grid = first.grid) =>
        cnf = first.cnf

C9_Witness ==
    /\ pc = "solve"
    /\ Len(past) = 2
    /\ past[1] = grid
    /\ past[2] # grid
    /\ cnf = first.cnf

(* C10: every literal of every clause has magnitude in 1..729, and the     *)
(* clauses after the first 11988 are, in row-major order of the non-zero   *)
(* cells, one positive literal each that decodes to (r, c, g - 1).         *)
ClueCells(g) ==
    SelectSeq([k \in 1..81 |-> <<(k - 1) \div 9, (k - 1) % 9>>],
              LAMBDA rc : g[rc[1] + 1][rc[2] + 1] # 0)

C10_LiteralsAndClues ==
    pc \in {"solve", "decode", "done"} =>
        /\ \A i \in 1..Len(cnf) : \A j \in 1..Len(cnf[i]) :
               Abs(cnf[i][j]) \in 1..729
        /\ Len(cnf) = 11988 + Len(ClueCells(grid))
        /\ \A k \in 1..Len(ClueCells(grid)) :
               LET cl == cnf[11988 + k]
                   rc == ClueCells(grid)[k]
               IN  /\ Len(cl) = 1
                   /\ cl[1] > 0
                   /\ unvar(cl[1]) = <<rc[1], rc[2], grid[rc[1] + 1][rc[2] + 1] - 1>>

C10_Witness ==
    /\ pc = "solve"
    /\ grid = Base
    /\ cnf[11988 + 81] = <<729>>
====
